---- MODULE Spec2Model ----
(***************************************************************************)
(* The Home component of pages/index.tsx as a state machine: the React     *)
(* state of the component, the user's events (upload, reset, run, render,  *)
(* caption edits) and the continuations of the two asynchronous handlers   *)
(* runAgent and renderVideo, each suspended at its await.                  *)
(*                                                                         *)
(* Strings are sequences of one-character strings.  The OCR and the render *)
(* collaborators (src/lib/ocr, src/lib/render) are not part of the source  *)
(* at hand: they are modelled from their contracts.                        *)
(***************************************************************************)
EXTENDS Integers, Sequences, FiniteSets, TLC

\* ------------------------------------------------------------------ bounds

\* Files offered in one upload.
MaxFiles == 1
\* Uploads in a session.
MaxUploads == 2
\* Caption edits in a session.
MaxEdits == 1
\* Handler invocations that may be suspended at an await at the same time.
MaxProcs == 2
\* Pages of the upload a caption session starts from.
MaxPages == 2

\* ------------------------------------------------------------ state

VARIABLES
    images,        \* useState<UploadedImage[]>: sequence of [id, name]
    isProcessing,  \* useState(false): the busy flag
    ocrResults,    \* useState<OcrResult[]>: sequence of [imageId, text]
    subtitles,     \* useState<SubtitleItem[]>: sequence of [id, text, durationMs, pageIndex]
    agentStep,     \* useState<number>(0): the displayed percent
    agentLabel,    \* useState<string>("Idle"): the stage label
    videoUrl,      \* useState<string | null>(null)
    procs,         \* the suspended invocations of runAgent / renderVideo
    uploads,       \* the uploads made so far: the instant Date.now() returns
    edits,         \* the caption edits made so far
    srt            \* the text of the last subtitles.srt handed to the browser

progVars == <<images, isProcessing, ocrResults, subtitles, agentStep, agentLabel, videoUrl>>
vars == <<images, isProcessing, ocrResults, subtitles, agentStep, agentLabel, videoUrl, procs, uploads, edits, srt>>

\* ------------------------------------------------------------ helpers

Max(a, b) == IF a >= b THEN a ELSE b
Min(a, b) == IF a <= b THEN a ELSE b

\* Math.round of the rational n/d, n >= 0, d > 0: floor(n/d + 1/2).
RoundDiv(n, d) == (2 * n + d) \div (2 * d)

Whitespace == {" ", "\n", "\t", "\r"}
Terminal == {".", "!", "?"}
Digits == {"0", "1", "2", "3", "4", "5", "6", "7", "8", "9"}

RemoveAt(s, i) == SubSeq(s, 1, i - 1) \o SubSeq(s, i + 1, Len(s))

\* --------------------------------------------- caption segmenter (l. 59-63)

\* text.replace(/\r/g, '')
RECURSIVE StripCr(_)
StripCr(s) ==
    IF s = <<>> THEN <<>>
    ELSE IF Head(s) = "\r" THEN StripCr(Tail(s))
    ELSE <<Head(s)>> \o StripCr(Tail(s))

\* The first index >= q of s holding a character outside cs, or Len(s) + 1.
RECURSIVE RunEnd(_, _, _)
RunEnd(s, q, cs) ==
    IF q > Len(s) \/ s[q] \notin cs THEN q ELSE RunEnd(s, q + 1, cs)

\* /\n{2,}|(?<=[.!?])\s+/ tried at index q: the index after the match, 0 when
\* it does not match there.  The first alternative is tried first; both are
\* greedy.
MatchEnd(s, q) ==
    IF s[q] = "\n" /\ q + 1 <= Len(s) /\ s[q + 1] = "\n"
    THEN RunEnd(s, q, {"\n"})
    ELSE IF q > 1 /\ s[q - 1] \in Terminal /\ s[q] \in Whitespace
    THEN RunEnd(s, q, Whitespace)
    ELSE 0

\* String.prototype.split with that pattern: p is the start of the piece
\* being collected, q the index the pattern is tried at.
RECURSIVE SplitFrom(_, _, _)
SplitFrom(s, p, q) ==
    IF q > Len(s) THEN <<SubSeq(s, p, Len(s))>>
    ELSE LET e == MatchEnd(s, q)
         IN  IF e = 0 THEN SplitFrom(s, p, q + 1)
             ELSE <<SubSeq(s, p, q - 1)>> \o SplitFrom(s, e, e)

\* String.prototype.trim
RECURSIVE TrimLeft(_)
TrimLeft(s) ==
    IF s # <<>> /\ Head(s) \in Whitespace THEN TrimLeft(Tail(s)) ELSE s

RECURSIVE TrimRight(_)
TrimRight(s) ==
    IF s # <<>> /\ s[Len(s)] \in Whitespace
    THEN TrimRight(SubSeq(s, 1, Len(s) - 1)) ELSE s

Trim(s) == TrimRight(TrimLeft(s))

\* .map(s => s.trim()).filter(Boolean)
RECURSIVE TrimAndFilter(_)
TrimAndFilter(pieces) ==
    IF pieces = <<>> THEN <<>>
    ELSE LET t == Trim(Head(pieces))
         IN  IF t = <<>> THEN TrimAndFilter(Tail(pieces))
             ELSE <<t>> \o TrimAndFilter(Tail(pieces))

Segment(text) == TrimAndFilter(SplitFrom(StripCr(text), 1, 1))

\* ------------------------------------------- duration estimator (l. 65-66)

MsPerChar == 60
MinEstimateMs == 1500
MaxEstimateMs == 7000

EstimateDuration(chunk) ==
    Max(MinEstimateMs, Min(MaxEstimateMs, MsPerChar * Len(chunk)))

\* --------------------------------------------- timeline builder (l. 57-73)

FallbackDurationMs == 2000

\* `Page ${idx + 1}` for the 0-based idx
DigitChars == <<"0", "1", "2", "3", "4", "5", "6", "7", "8", "9">>

RECURSIVE ToDecimal(_)
ToDecimal(n) ==
    IF n < 10 THEN <<DigitChars[n + 1]>>
    ELSE ToDecimal(n \div 10) \o <<DigitChars[(n % 10) + 1]>>

PageLabel(idx) == <<"P", "a", "g", "e", " ">> \o ToDecimal(idx + 1)

\* The id of a page alone: `${r.imageId}` without the running index
IdStringOfPage(id) ==
    ToDecimal(id.image[1]) \o <<"-">> \o ToDecimal(id.image[2])

\* The id of a caption as the string the code builds: `${r.imageId}-${subs.length}`
\* (l. 67) or `${img.id}-fallback` (l. 72), the page id being `${Date.now()}-${idx}`
\* (l. 33).
IdString(id) ==
    ToDecimal(id.image[1]) \o <<"-">> \o ToDecimal(id.image[2]) \o <<"-">>
    \o (IF id.fallback THEN <<"f", "a", "l", "l", "b", "a", "c", "k">> ELSE ToDecimal(id.n))

\* for (const chunk of chunks) subs.push({ id: `${r.imageId}-${subs.length}`, ... })
RECURSIVE PushChunks(_, _, _, _)
PushChunks(subs, chunks, imageId, pageIndex) ==
    IF chunks = <<>> THEN subs
    ELSE PushChunks(
            Append(subs, [id |-> [image |-> imageId, n |-> Len(subs), fallback |-> FALSE],
                          text |-> Head(chunks),
                          durationMs |-> EstimateDuration(Head(chunks)),
                          pageIndex |-> pageIndex]),
            Tail(chunks), imageId, pageIndex)

\* results.forEach((r, pageIndex) => ...), from the 0-based pageIndex on
RECURSIVE SegmentPages(_, _, _)
SegmentPages(subs, results, pageIndex) ==
    IF pageIndex >= Len(results) THEN subs
    ELSE SegmentPages(
            PushChunks(subs, Segment(results[pageIndex + 1].text),
                       results[pageIndex + 1].imageId, pageIndex),
            results, pageIndex + 1)

\* images.forEach((img, idx) => subs.push({ id: `${img.id}-fallback`, ... }))
FallbackSubtitles(imgs) ==
    [i \in 1..Len(imgs) |->
        [id |-> [image |-> imgs[i].id, n |-> 0, fallback |-> TRUE],
         text |-> PageLabel(i - 1),
         durationMs |-> FallbackDurationMs,
         pageIndex |-> i - 1]]

\* The fallback applied page by page: a placeholder for each page without a segment
BuildSubtitlesPerPage(results, imgs) ==
    LET subs == SegmentPages(<<>>, results, 0)
    IN  subs \o SelectSeq(FallbackSubtitles(imgs),
                          LAMBDA u : Segment(results[u.pageIndex + 1].text) = <<>>)

BuildSubtitles(results, imgs) ==
    LET subs == SegmentPages(<<>>, results, 0)
    IN  IF Len(subs) = 0 THEN FallbackSubtitles(imgs) ELSE subs

\* -------------------------------------------- duration input (l. 203)

MinDurationMs == 500

\* The value of a run of decimal digits.
RECURSIVE DigitsValue(_)
DigitsValue(ds) ==
    IF ds = <<>> THEN 0
    ELSE 10 * DigitsValue(SubSeq(ds, 1, Len(ds) - 1))
         + (CHOOSE d \in 0..9 : DigitChars[d + 1] = ds[Len(ds)])

\* parseInt(s): leading whitespace skipped, an optional sign, then the longest
\* run of digits; NaN when there is no digit.
ParseInt(s) ==
    LET t      == TrimLeft(s)
        signed == t # <<>> /\ Head(t) \in {"-", "+"}
        u      == IF signed THEN Tail(t) ELSE t
        e      == RunEnd(u, 1, Digits)
        v      == DigitsValue(SubSeq(u, 1, e - 1))
    IN  IF e = 1 THEN [nan |-> TRUE, val |-> 0]
        ELSE [nan |-> FALSE, val |-> IF signed /\ Head(t) = "-" THEN 0 - v ELSE v]

\* The same without the floor: parseInt(e.target.value) || 0
DurationFromInputUnclamped(s) ==
    LET r == ParseInt(s)
    IN  IF r.nan \/ r.val = 0 THEN 0 ELSE r.val

\* Math.max(500, parseInt(e.target.value) || 0)
DurationFromInput(s) ==
    LET r == ParseInt(s)
    IN  Max(MinDurationMs, IF r.nan \/ r.val = 0 THEN 0 ELSE r.val)

\* ------------------------------------------------------------ inputs

\* File names, compared as numbers by localeCompare(..., { numeric: true }).
Names == {1, 2}

Files == [name : Names, image : BOOLEAN]

FileLists == UNION {[1..n -> Files] : n \in 0..MaxFiles}

\* Texts the OCR collaborator recognizes on a page.
OcrTexts ==
    { <<>>,
      <<"H", "i", ".">>,
      <<"A", ".", "\n", "\n", "B">> }

\* Fractions n/d in [0, 1] a collaborator reports as progress.
Fractions == { <<0, 1>>, <<1, 2>>, <<1, 1>> }

FracLeq(f, g) == f[1] * g[2] <= g[1] * f[2]

\* Handles the render collaborator returns.
Videos == {"blob:video"}

NoVideo == "null"

\* What the user types into a caption's text area and duration field.
EditTexts == { <<"x", "\n", "\n", "y">> }

DurationInputs ==
    { <<"-", "5", "0">>,
      <<"a", "b", "c">>,
      <<"4", "9", "9">>,
      <<"4", "0", "0", "0", "0", "0", "0", "0", "5", "m", "s">> }

\* ------------------------------------------------------------ initial state

Init ==
    /\ images = <<>>
    /\ isProcessing = FALSE
    /\ ocrResults = <<>>
    /\ subtitles = <<>>
    /\ agentStep = 0
    /\ agentLabel = "Idle"
    /\ videoUrl = NoVideo
    /\ procs = <<>>
    /\ uploads = 0
    /\ edits = 0
    /\ srt = <<>>

\* ------------------------------------------------ onFilesSelected (l. 27-41)

\* items.sort((a, b) => a.name.localeCompare(b.name, undefined, { numeric: true })),
\* a stable sort: x goes after the items of sorted whose name is not greater.
RECURSIVE InsertByName(_, _)
InsertByName(sorted, x) ==
    IF sorted = <<>> THEN <<x>>
    ELSE IF sorted[Len(sorted)].name <= x.name THEN Append(sorted, x)
    ELSE Append(InsertByName(SubSeq(sorted, 1, Len(sorted) - 1), x), sorted[Len(sorted)])

RECURSIVE SortByName(_)
SortByName(items) ==
    IF items = <<>> THEN <<>>
    ELSE InsertByName(SortByName(SubSeq(items, 1, Len(items) - 1)), items[Len(items)])

\* Array.from(files).forEach((file, idx) => ...): the image files from the
\* 0-based idx on, each with the id `${Date.now()}-${idx}`; now is the instant
\* of the upload.
RECURSIVE ImageItems(_, _, _)
ImageItems(files, now, idx) ==
    IF idx >= Len(files) THEN <<>>
    ELSE (IF files[idx + 1].image
          THEN <<[id |-> <<now, idx>>, name |-> files[idx + 1].name]>>
          ELSE <<>>)
         \o ImageItems(files, now, idx + 1)

\* Of an UploadedImage the state keeps the id: nothing reads the name after the sort.
Pages(items) == [i \in 1..Len(items) |-> [id |-> items[i].id]]

onFilesSelected(files, now) ==
    /\ images' = Pages(SortByName(ImageItems(files, now, 0)))
    /\ ocrResults' = <<>>
    /\ subtitles' = <<>>
    /\ videoUrl' = NoVideo
    /\ UNCHANGED <<isProcessing, agentStep, agentLabel, procs>>

\* <input type="file" ... onChange={e => onFilesSelected(e.target.files)} /> (l. 153):
\* the input is never disabled, and its files are never null (l. 28).  Uploads
\* happen at distinct instants, so Date.now() is the ordinal of the upload.
Upload ==
    /\ uploads < MaxUploads
    /\ uploads' = uploads + 1
    /\ \E files \in FileLists : onFilesSelected(files, uploads')
    /\ UNCHANGED <<edits, srt>>

\* The Reset button (l. 169)
ResetEnabled == ~isProcessing

Reset ==
    /\ ResetEnabled
    /\ images' = <<>>
    /\ ocrResults' = <<>>
    /\ subtitles' = <<>>
    /\ videoUrl' = NoVideo
    /\ UNCHANGED <<isProcessing, agentStep, agentLabel, procs, uploads, edits, srt>>

\* ------------------------------------------------ progress (l. 51, 75, 80, 91, 101, 106)

OcrWeight == 25
TimelinePercent == 50
PlanPercent == 65
RenderBase == 70
RenderWeight == 30
CompletedPercent == 100

\* The same with Math.floor
OcrPercentFloor(f) == (OcrWeight * f[1]) \div f[2]

\* Math.round(progress * 25)
OcrPercent(f) == RoundDiv(OcrWeight * f[1], f[2])

\* 70 + Math.round(30 * p)
RenderPercent(f) == RenderBase + RoundDiv(RenderWeight * f[1], f[2])

\* ------------------------------------------------ the collaborators

\* recognizeOcrForImages: one result per input page, in input order.
OcrOutputs(imgs) ==
    {[i \in 1..Len(imgs) |-> [imageId |-> imgs[i].id, text |-> texts[i]]] :
        texts \in [1..Len(imgs) -> OcrTexts]}

\* A collaborator reports progress fractions that do not decrease.
MayReport(p, f) == FracLeq(p.frac, f)

\* ------------------------------------------------ runAgent (l. 43-85)

\* An invocation suspended at an await.  imgs is what its continuation reads
\* of the state it was created in: runAgent reads its own `images` (l. 72);
\* what renderVideo passes to the render collaborator is read by nothing after
\* the await.  frac is the last progress fraction reported to it.
Suspended(kind, pc, imgs) ==
    [kind |-> kind, pc |-> pc, imgs |-> imgs, frac |-> <<0, 1>>]

\* runAgent without its first line, the guard on images.length
runAgentUnguarded ==
    /\ Len(procs) < MaxProcs
    /\ isProcessing' = TRUE
    /\ agentStep' = 0
    /\ agentLabel' = "Analyzing pages with OCR"
    /\ procs' = Append(procs, Suspended("runAgent", "ocr", images))
    /\ UNCHANGED <<images, ocrResults, subtitles, videoUrl, uploads, edits, srt>>

\* l. 43-52: up to the await of recognizeOcrForImages
runAgent ==
    /\ IF Len(images) = 0
       THEN UNCHANGED <<progVars, procs>>
       ELSE /\ Len(procs) < MaxProcs
            /\ isProcessing' = TRUE
            /\ agentStep' = 0
            /\ agentLabel' = "Analyzing pages with OCR"
            /\ procs' = Append(procs, Suspended("runAgent", "ocr", images))
            /\ UNCHANGED <<images, ocrResults, subtitles, videoUrl>>
    /\ UNCHANGED <<uploads, edits, srt>>

\* The Run Agent button (l. 168)
RunAgentEnabled == ~(isProcessing \/ Len(images) = 0)

ClickRunAgent == RunAgentEnabled /\ runAgent

\* l. 50-52: the progress callback
OcrProgress ==
    \E i \in 1..Len(procs), f \in Fractions :
        /\ procs[i].kind = "runAgent" /\ procs[i].pc = "ocr"
        /\ MayReport(procs[i], f)
        /\ agentStep' = OcrPercent(f)
        /\ procs' = [procs EXCEPT ![i].frac = f]
        /\ UNCHANGED <<uploads, edits, srt>>
        /\ UNCHANGED <<images, isProcessing, ocrResults, subtitles, agentLabel, videoUrl>>

\* l. 53-79: recognizeOcrForImages resolves; up to the await of the timer
OcrResolve ==
    \E i \in 1..Len(procs) :
        /\ procs[i].kind = "runAgent" /\ procs[i].pc = "ocr"
        /\ \E results \in OcrOutputs(procs[i].imgs) :
              /\ ocrResults' = results
              /\ subtitles' = BuildSubtitles(results, procs[i].imgs)
        /\ agentStep' = TimelinePercent
        /\ agentLabel' = "Planning camera motions"
        /\ procs' = [procs EXCEPT ![i].pc = "plan"]
        /\ UNCHANGED <<uploads, edits, srt>>
        /\ UNCHANGED <<images, isProcessing, videoUrl>>

\* A rejection handled by clearing what the run had to produce
OcrRejectClearing ==
    \E i \in 1..Len(procs) :
        /\ procs[i].kind = "runAgent" /\ procs[i].pc = "ocr"
        /\ procs' = RemoveAt(procs, i)
        /\ ocrResults' = <<>>
        /\ subtitles' = <<>>
        /\ UNCHANGED <<images, isProcessing, agentStep, agentLabel, videoUrl, uploads, edits, srt>>

\* recognizeOcrForImages rejects: the await throws out of runAgent
OcrReject ==
    \E i \in 1..Len(procs) :
        /\ procs[i].kind = "runAgent" /\ procs[i].pc = "ocr"
        /\ procs' = RemoveAt(procs, i)
        /\ UNCHANGED <<progVars, uploads, edits, srt>>

\* l. 79-84: the 600 ms timer fires
PlanDone ==
    \E i \in 1..Len(procs) :
        /\ procs[i].kind = "runAgent" /\ procs[i].pc = "plan"
        /\ agentStep' = PlanPercent
        /\ agentLabel' = "Ready to render"
        /\ isProcessing' = FALSE
        /\ procs' = RemoveAt(procs, i)
        /\ UNCHANGED <<uploads, edits, srt>>
        /\ UNCHANGED <<images, ocrResults, subtitles, videoUrl>>

\* ------------------------------------------------ renderVideo (l. 87-107)

\* l. 87-102: up to the await of renderAnimeToVideo
renderVideo ==
    /\ IF Len(images) = 0 \/ Len(subtitles) = 0
       THEN UNCHANGED <<progVars, procs>>
       ELSE /\ Len(procs) < MaxProcs
            /\ isProcessing' = TRUE
            /\ agentLabel' = "Rendering animation to video"
            /\ agentStep' = RenderBase
            /\ procs' = Append(procs, Suspended("renderVideo", "render", <<>>))
            /\ UNCHANGED <<images, ocrResults, subtitles, videoUrl>>
    /\ UNCHANGED <<uploads, edits, srt>>

\* The button without disabled={isProcessing}
RenderEnabledWhileBusy == Len(subtitles) > 0

\* The Render Video button, inside {subtitles.length > 0 && ...} (l. 175, 209)
RenderEnabled == Len(subtitles) > 0 /\ ~isProcessing

ClickRender == RenderEnabled /\ renderVideo

\* l. 101: the progress callback
RenderProgress ==
    \E i \in 1..Len(procs), f \in Fractions :
        /\ procs[i].kind = "renderVideo"
        /\ MayReport(procs[i], f)
        /\ agentStep' = RenderPercent(f)
        /\ procs' = [procs EXCEPT ![i].frac = f]
        /\ UNCHANGED <<uploads, edits, srt>>
        /\ UNCHANGED <<images, isProcessing, ocrResults, subtitles, agentLabel, videoUrl>>

\* The same without setVideoUrl(url)
RenderResolveNoStore ==
    \E i \in 1..Len(procs) :
        /\ procs[i].kind = "renderVideo"
        /\ isProcessing' = FALSE
        /\ agentLabel' = "Completed"
        /\ agentStep' = CompletedPercent
        /\ procs' = RemoveAt(procs, i)
        /\ UNCHANGED <<images, ocrResults, subtitles, videoUrl, uploads, edits, srt>>

\* l. 103-106: renderAnimeToVideo resolves
RenderResolve ==
    \E i \in 1..Len(procs), url \in Videos :
        /\ procs[i].kind = "renderVideo"
        /\ videoUrl' = url
        /\ isProcessing' = FALSE
        /\ agentLabel' = "Completed"
        /\ agentStep' = CompletedPercent
        /\ procs' = RemoveAt(procs, i)
        /\ UNCHANGED <<uploads, edits, srt>>
        /\ UNCHANGED <<images, ocrResults, subtitles>>

\* renderAnimeToVideo rejects: the await throws out of renderVideo
RenderReject ==
    \E i \in 1..Len(procs) :
        /\ procs[i].kind = "renderVideo"
        /\ procs' = RemoveAt(procs, i)
        /\ UNCHANGED <<progVars, uploads, edits, srt>>

\* ------------------------------------------------ caption edits (l. 134-139, 202-203)

\* The same without the test of the id: every unit gets the text
updateSubtitleTextOfAll(id, text) ==
    subtitles' = [k \in 1..Len(subtitles) |-> [subtitles[k] EXCEPT !.text = text]]

\* prev.map(s => s.id === id ? { ...s, text } : s)
updateSubtitleText(id, text) ==
    subtitles' = [k \in 1..Len(subtitles) |->
                    IF subtitles[k].id = id
                    THEN [subtitles[k] EXCEPT !.text = text]
                    ELSE subtitles[k]]

\* prev.map(s => s.id === id ? { ...s, durationMs } : s)
updateSubtitleDuration(id, durationMs) ==
    subtitles' = [k \in 1..Len(subtitles) |->
                    IF subtitles[k].id = id
                    THEN [subtitles[k] EXCEPT !.durationMs = durationMs]
                    ELSE subtitles[k]]

\* <textarea ... onChange={e => updateSubtitleText(s.id, e.target.value)} />
EditText ==
    \E k \in 1..Len(subtitles), text \in EditTexts :
        /\ updateSubtitleText(subtitles[k].id, text)
        /\ edits < MaxEdits
        /\ edits' = edits + 1
        /\ UNCHANGED <<images, isProcessing, ocrResults, agentStep, agentLabel, videoUrl, procs, uploads, srt>>

\* <input ... onChange={e => updateSubtitleDuration(s.id, Math.max(500, parseInt(e.target.value)||0))} />
EditDuration ==
    \E k \in 1..Len(subtitles), input \in DurationInputs :
        /\ updateSubtitleDuration(subtitles[k].id, DurationFromInput(input))
        /\ edits < MaxEdits
        /\ edits' = edits + 1
        /\ UNCHANGED <<images, isProcessing, ocrResults, agentStep, agentLabel, videoUrl, procs, uploads, srt>>

\* ------------------------------------------------ the component

Next ==
    \/ Upload
    \/ Reset
    \/ ClickRunAgent
    \/ OcrProgress
    \/ OcrResolve
    \/ OcrReject
    \/ PlanDone
    \/ ClickRender
    \/ RenderProgress
    \/ RenderResolve
    \/ RenderReject
    \/ EditText
    \/ EditDuration

Spec == Init /\ [][Next]_vars

\* The handlers invoked by a caller that keeps off while busy but, unlike the
\* buttons, does not look at the pages and the captions first: what is left to
\* the guards of l. 44 and l. 88.
CallRunAgent == ~isProcessing /\ runAgent

CallRenderVideo == ~isProcessing /\ renderVideo

NextCall ==
    \/ Next
    \/ CallRunAgent
    \/ CallRenderVideo

SpecCall == Init /\ [][NextCall]_vars

\* The component with collaborators that do not reject.  A pending promise of
\* a collaborator is settled and the 600 ms timer fires: the continuation of an
\* await is run by the event loop once it can run.
NextLive ==
    \/ Upload
    \/ Reset
    \/ ClickRunAgent
    \/ OcrProgress
    \/ OcrResolve
    \/ PlanDone
    \/ ClickRender
    \/ RenderProgress
    \/ RenderResolve
    \/ EditText
    \/ EditDuration

SpecLive ==
    /\ Init
    /\ [][NextLive]_vars
    /\ WF_vars(OcrResolve)
    /\ WF_vars(PlanDone)
    /\ WF_vars(RenderResolve)

\* ------------------------------------------------ stages

\* The place of a stage label in Idle -> Recognizing -> BuildingTimeline ->
\* PlanningMotion -> ReadyToRender -> Rendering -> Completed.
StageRank(label) ==
    CASE label = "Idle" -> 0
      [] label = "Analyzing pages with OCR" -> 1
      [] label = "Building screenplay" -> 2
      [] label = "Planning camera motions" -> 3
      [] label = "Ready to render" -> 4
      [] label = "Rendering animation to video" -> 5
      [] label = "Completed" -> 6

Recognizing == \E i \in 1..Len(procs) : procs[i].kind = "runAgent" /\ procs[i].pc = "ocr"

\* ------------------------------------------------ exportSrt (l. 109-132)

HourMs == 3600000
MinuteMs == 60000
SecondMs == 1000

\* n.toString().padStart(w, '0')
RECURSIVE PadStart(_, _)
PadStart(s, w) == IF Len(s) >= w THEN s ELSE PadStart(<<"0">> \o s, w)

\* The same with the hours of a clock: a day's modulus on h
fmtWrapped(ms) ==
    LET h   == (ms \div HourMs) % 24
        m   == (ms % HourMs) \div MinuteMs
        sec == (ms % MinuteMs) \div SecondMs
        cs  == ms % SecondMs
    IN  PadStart(ToDecimal(h), 2) \o <<":">> \o PadStart(ToDecimal(m), 2) \o <<":">>
        \o PadStart(ToDecimal(sec), 2) \o <<",">> \o PadStart(ToDecimal(cs), 3)

\* l. 114-121: `${pad(h)}:${pad(m)}:${pad(sec)},${cs.toString().padStart(3,'0')}`
fmt(ms) ==
    LET h   == ms \div HourMs
        m   == (ms % HourMs) \div MinuteMs
        sec == (ms % MinuteMs) \div SecondMs
        cs  == ms % SecondMs
    IN  PadStart(ToDecimal(h), 2) \o <<":">> \o PadStart(ToDecimal(m), 2) \o <<":">>
        \o PadStart(ToDecimal(sec), 2) \o <<",">> \o PadStart(ToDecimal(cs), 3)

Arrow == <<" ", "-", "-", ">", " ">>

\* subtitles.forEach((s, idx) => ...) from the 0-based idx on; t is the running
\* time.  Four lines a unit: number, times, text, ''.
RECURSIVE SrtLines(_, _, _)
SrtLines(subs, idx, t) ==
    IF idx >= Len(subs) THEN <<>>
    ELSE LET s     == subs[idx + 1]
             start == t
             end   == t + s.durationMs
         IN  <<ToDecimal(idx + 1), fmt(start) \o Arrow \o fmt(end), s.text, <<>>>>
             \o SrtLines(subs, idx + 1, end)

\* lines.join('\n')
RECURSIVE Join(_)
Join(lines) ==
    IF lines = <<>> THEN <<>>
    ELSE IF Len(lines) = 1 THEN lines[1]
    ELSE lines[1] \o <<"\n">> \o Join(Tail(lines))

exportSrt ==
    /\ srt' = Join(SrtLines(subtitles, 0, 0))
    /\ UNCHANGED <<progVars, procs, uploads, edits>>

\* The Export SRT button, inside {subtitles.length > 0 && ...} (l. 175, 195)
ExportSrt == Len(subtitles) > 0 /\ exportSrt

\* ------------------------------------------------ a reader of subtitle documents

\* The first index >= q of s holding a character of seps, or Len(s) + 1.
RECURSIVE IndexIn(_, _, _)
IndexIn(s, seps, q) ==
    IF q > Len(s) \/ s[q] \in seps THEN q ELSE IndexIn(s, seps, q + 1)

\* The pieces of s from index p on, between the characters of seps.
RECURSIVE SplitOn(_, _, _)
SplitOn(s, seps, p) ==
    LET q == IndexIn(s, seps, p)
    IN  IF q > Len(s) THEN <<SubSeq(s, p, Len(s))>>
        ELSE <<SubSeq(s, p, q - 1)>> \o SplitOn(s, seps, q + 1)

IsNumber(s) == s # <<>> /\ \A i \in 1..Len(s) : s[i] \in Digits

\* hours:minutes:seconds,milliseconds
ReadStamp(s) ==
    LET fields == SplitOn(s, {":", ","}, 1)
    IN  IF Len(fields) = 4 /\ \A i \in 1..4 : IsNumber(fields[i])
        THEN [ok |-> TRUE,
              h |-> DigitsValue(fields[1]), m |-> DigitsValue(fields[2]),
              s |-> DigitsValue(fields[3]), ms |-> DigitsValue(fields[4])]
        ELSE [ok |-> FALSE, h |-> 0, m |-> 0, s |-> 0, ms |-> 0]

StampMs(st) == st.h * 3600000 + st.m * 60000 + st.s * 1000 + st.ms

\* The index of the first " --> " of a line, 0 when there is none.
RECURSIVE ArrowAt(_, _)
ArrowAt(line, p) ==
    IF p + 4 > Len(line) THEN 0
    ELSE IF SubSeq(line, p, p + 4) = <<" ", "-", "-", ">", " ">> THEN p
    ELSE ArrowAt(line, p + 1)

\* start --> end
ReadTimes(line) ==
    LET p == ArrowAt(line, 1)
    IN  IF p = 0 THEN [ok |-> FALSE, start |-> ReadStamp(<<>>), end |-> ReadStamp(<<>>)]
        ELSE LET a == ReadStamp(SubSeq(line, 1, p - 1))
                 b == ReadStamp(SubSeq(line, p + 5, Len(line)))
             IN  [ok |-> a.ok /\ b.ok, start |-> a, end |-> b]

\* The blocks of a document: the runs of lines between empty lines.
RECURSIVE Blocks(_, _)
Blocks(lines, cur) ==
    IF lines = <<>> THEN (IF cur = <<>> THEN <<>> ELSE <<cur>>)
    ELSE IF Head(lines) = <<>>
    THEN (IF cur = <<>> THEN <<>> ELSE <<cur>>) \o Blocks(Tail(lines), <<>>)
    ELSE Blocks(Tail(lines), Append(cur, Head(lines)))

\* A block is a number, a line of times and the lines of the text.
ReadBlock(b) ==
    IF Len(b) >= 2 /\ IsNumber(b[1]) /\ ReadTimes(b[2]).ok
    THEN [ok |-> TRUE,
          start |-> StampMs(ReadTimes(b[2]).start),
          end |-> StampMs(ReadTimes(b[2]).end),
          text |-> Join(SubSeq(b, 3, Len(b)))]
    ELSE [ok |-> FALSE, start |-> 0, end |-> 0, text |-> <<>>]

ParseSrt(doc) ==
    LET blocks == Blocks(SplitOn(doc, {"\n"}, 1), <<>>)
    IN  [k \in 1..Len(blocks) |-> ReadBlock(blocks[k])]

\* ------------------------------------------------ a caption session

\* The page list after one upload of n image files, picked in the reverse of
\* their names' order.
PageList(n) ==
    Pages(SortByName(ImageItems([i \in 1..n |-> [name |-> n + 1 - i, image |-> TRUE]], 1, 0)))

InitCaptions ==
    /\ images \in {PageList(n) : n \in 1..MaxPages}
    /\ isProcessing = FALSE
    /\ ocrResults = <<>>
    /\ subtitles = <<>>
    /\ agentStep = 0
    /\ agentLabel = "Idle"
    /\ videoUrl = NoVideo
    /\ procs = <<>>
    /\ uploads = 1
    /\ edits = 0
    /\ srt = <<>>

\* Caption ids over the pages at hand
CaptionIds == [image : {images[i].id : i \in 1..Len(images)}, n : 0..1, fallback : BOOLEAN]

\* updateSubtitleText / updateSubtitleDuration called with the id of no unit
\* of the list
CallUpdateUnknown ==
    \E id \in CaptionIds :
        /\ \A k \in 1..Len(subtitles) : subtitles[k].id # id
        /\ \/ \E text \in EditTexts : updateSubtitleText(id, text)
           \/ \E input \in DurationInputs : updateSubtitleDuration(id, DurationFromInput(input))
        /\ edits < MaxEdits
        /\ edits' = edits + 1
        /\ UNCHANGED <<images, isProcessing, ocrResults, agentStep, agentLabel, videoUrl, procs, uploads, srt>>

\* The Run Agent button clicked for the first run over the uploaded pages
ClickFirstRun == ocrResults = <<>> /\ ClickRunAgent

\* One upload and one run over it, then caption edits and exports.
NextCaptions ==
    \/ ClickFirstRun
    \/ OcrResolve
    \/ PlanDone
    \/ EditText
    \/ EditDuration
    \/ CallUpdateUnknown
    \/ ExportSrt

SpecCaptions == InitCaptions /\ [][NextCaptions]_vars

\* ------------------------------------------------ claims

\* C1: when the OCR collaborator (during runAgent) or the render collaborator
\* (during renderVideo) rejects, the busy flag is false once the rejection has
\* been observed.
C1_BusyClearedOnRejection ==
    [][(OcrReject \/ RenderReject) => ~isProcessing']_vars

\* C2: between two starts of a run the displayed percent stays within 0..100
\* and never decreases, whatever stage transitions, render requests and
\* progress reports happen.
C2_PercentMonotone ==
    [][~ClickRunAgent => (agentStep' \in 0..100 /\ agentStep' >= agentStep)]_vars

\* C3: runAgent invoked with zero pages, and renderVideo invoked with zero
\* pages or zero captions, change no state variable and suspend at no
\* collaborator call.
C3_GuardedNoOp ==
    [][ (\/ Len(images) = 0 /\ CallRunAgent
         \/ (Len(images) = 0 \/ Len(subtitles) = 0) /\ CallRenderVideo)
        => UNCHANGED vars ]_vars

\* Pages are gone and captions are left while nothing is busy: the Render Video
\* button is enabled and only renderVideo's own guard stops the render.
C3_Witness ==
    /\ Len(images) = 0
    /\ Len(subtitles) > 0
    /\ ~isProcessing
    /\ Len(procs) = 0

\* C4: every caption of the caption list has a durationMs >= 500, whether the
\* timeline builder made it or the user edited it; the inputs "-50" and "abc"
\* are stored as exactly 500.
C4_DurationFloor ==
    /\ \A k \in 1..Len(subtitles) :
          subtitles[k].durationMs \in Int /\ subtitles[k].durationMs >= MinDurationMs
    /\ DurationFromInput(<<"-", "5", "0">>) = MinDurationMs
    /\ DurationFromInput(<<"a", "b", "c">>) = MinDurationMs

\* A duration edit has been clamped to the floor.
C4_Witness ==
    /\ edits > 0
    /\ \E k \in 1..Len(subtitles) : subtitles[k].durationMs = MinDurationMs

\* C5: the pageIndex of every caption is a valid index into the current page
\* list.
C5_PageIndexValid ==
    \A k \in 1..Len(subtitles) : subtitles[k].pageIndex \in 0..(Len(images) - 1)

\* C6: the page list changes only in a state where busy is false.
C6_PagesChangeOnlyWhenIdle ==
    [][images' # images => ~isProcessing]_vars

\* C7: once a new run is in the Recognizing stage, the OcrResult list, the
\* caption list and the video handle hold nothing of an earlier run.
C7_RunDiscardsPrior ==
    Recognizing => (ocrResults = <<>> /\ subtitles = <<>> /\ videoUrl = NoVideo)

\* C8: after a reset or an upload the stage label is Idle, the percent is 0 and
\* busy is false.
C8_ResetToIdle ==
    [][(Reset \/ Upload) => (agentLabel' = "Idle" /\ agentStep' = 0 /\ ~isProcessing')]_vars

\* C9: between two starts of a run the stage never moves back to an earlier
\* stage.
C9_StageForwardOnly ==
    [][~ClickRunAgent => StageRank(agentLabel') >= StageRank(agentLabel)]_vars

\* C10: at most one invocation of runAgent or renderVideo is suspended at an
\* await (OCR, the planning pause, rendering) at any time.
C10_OneStageInFlight ==
    Len(procs) <= 1

\* A run is in its planning pause with pages and captions present: only the
\* disabled Render Video button keeps a render from starting beside it.
C10_Witness ==
    /\ Len(procs) = 1
    /\ procs[1].pc = "plan"
    /\ isProcessing
    /\ Len(images) > 0
    /\ Len(subtitles) > 0

\* C11: a user edit changes the caption list only while busy is false.
C11_EditsOnlyWhenIdle ==
    [][((EditText \/ EditDuration) /\ subtitles' # subtitles) => ~isProcessing]_vars

\* C12: a run or a render that fails leaves the OcrResult list, the caption
\* list and the video handle as they were: neither its start, nor the progress
\* reported to it, nor the rejection writes any of the three.
C12_FailureKeepsResults ==
    [][(ClickRunAgent \/ OcrProgress \/ OcrReject \/ ClickRender \/ RenderProgress \/ RenderReject)
         => UNCHANGED <<ocrResults, subtitles, videoUrl>>]_vars

\* A run has failed (busy with nothing in flight) and the results of the run
\* and the render before it are all still there.
C12_Witness ==
    /\ isProcessing
    /\ Len(procs) = 0
    /\ Len(ocrResults) > 0
    /\ Len(subtitles) > 0
    /\ videoUrl # NoVideo

\* C13: the timeline builder applies the fallback exactly when the whole run
\* yields zero segments.  When no page of the N >= 1 recognized pages yields a
\* segment, the caption list is N units, the i-th with pageIndex i, the
\* placeholder text of page i+1 and durationMs 2000; when a page yields one, no
\* unit is a fallback unit and each page contributes as many units as it has
\* segments (none for an empty text).  The texts "Hello world.", "" and
\* "Line one.\n\nLine two." give 3 units with pageIndex 0, 2, 2.
C13_UnitsOfPage(subs, pageIndex) == Len(SelectSeq(subs, LAMBDA u : u.pageIndex = pageIndex))

C13_Example ==
    LET imgs == [i \in 1..3 |-> [id |-> <<1, i - 1>>]]
        texts == << <<"H", "e", "l", "l", "o", " ", "w", "o", "r", "l", "d", ".">>,
                    <<>>,
                    <<"L", "i", "n", "e", " ", "o", "n", "e", ".", "\n", "\n",
                      "L", "i", "n", "e", " ", "t", "w", "o", ".">> >>
        results == [i \in 1..3 |-> [imageId |-> imgs[i].id, text |-> texts[i]]]
        subs == BuildSubtitles(results, imgs)
    IN  /\ Len(subs) = 3
        /\ [k \in 1..3 |-> subs[k].pageIndex] = <<0, 2, 2>>
        /\ \A k \in 1..3 : ~subs[k].id.fallback

C13_FallbackExactlyWhenEmpty ==
    [][OcrResolve =>
        LET N == Len(ocrResults')
        IN  /\ N >= 1
            /\ IF \A i \in 1..N : Segment(ocrResults'[i].text) = <<>>
               THEN /\ Len(subtitles') = N
                    /\ \A i \in 1..N :
                          /\ subtitles'[i].pageIndex = i - 1
                          /\ subtitles'[i].text = PageLabel(i - 1)
                          /\ subtitles'[i].durationMs = 2000
               ELSE /\ \A k \in 1..Len(subtitles') : ~subtitles'[k].id.fallback
                    /\ \A i \in 1..N :
                          C13_UnitsOfPage(subtitles', i - 1) = Len(Segment(ocrResults'[i].text))
            /\ C13_Example]_vars

\* The fallback has been applied to a run over several pages.
C13_Witness ==
    /\ Len(ocrResults) >= 2
    /\ \A i \in 1..Len(ocrResults) : ocrResults[i].text = <<>>
    /\ Len(subtitles) = Len(ocrResults)
    /\ \A k \in 1..Len(subtitles) : subtitles[k].id.fallback

\* C14: when renderVideo completes, the returned video handle is stored, the
\* stage label is Completed, the percent is 100 and busy is false; and with
\* collaborators that eventually resolve, a started run eventually shows
\* Ready to render at 65 percent with busy false, and a started render
\* eventually shows Completed.
Rendering == \E i \in 1..Len(procs) : procs[i].kind = "renderVideo"

C14_Completed ==
    /\ videoUrl \in Videos
    /\ agentLabel = "Completed"
    /\ agentStep = 100
    /\ ~isProcessing

C14_Completion ==
    /\ [][RenderResolve => C14_Completed']_vars
    /\ Recognizing ~> (agentLabel = "Ready to render" /\ agentStep = 65 /\ ~isProcessing)
    /\ Rendering ~> C14_Completed

\* A render has completed and nothing is in flight.
C14_Witness ==
    /\ C14_Completed
    /\ Len(procs) = 0
    /\ Len(subtitles) > 0

\* C15: the serializer emits, for the caption list in order, the numbers 1..n
\* and cumulative contiguous times: unit k starts at the sum of the durations
\* before it (0 for the first) and ends at its start plus its durationMs; each
\* time is written as hours:minutes:seconds,milliseconds with minutes and
\* seconds < 60, milliseconds < 1000 and hours as large as they get, so that
\* the four components add up to the time.  Units of 1500 and 2000 ms give
\* 0 --> 1500 and 1500 --> 3500.
RECURSIVE C15_StartOf(_, _)
C15_StartOf(subs, k) ==
    IF k <= 1 THEN 0 ELSE C15_StartOf(subs, k - 1) + subs[k - 1].durationMs

C15_StampOf(st, t) ==
    /\ st.ok
    /\ st.m < 60 /\ st.s < 60 /\ st.ms < 1000
    /\ st.h * 3600000 + st.m * 60000 + st.s * 1000 + st.ms = t

C15_Example ==
    LET subs == <<[id |-> 1, text |-> <<"a">>, durationMs |-> 1500, pageIndex |-> 0],
                  [id |-> 2, text |-> <<"b">>, durationMs |-> 2000, pageIndex |-> 0]>>
        lines == SrtLines(subs, 0, 0)
    IN  /\ lines[2] = <<"0", "0", ":", "0", "0", ":", "0", "0", ",", "0", "0", "0",
                        " ", "-", "-", ">", " ",
                        "0", "0", ":", "0", "0", ":", "0", "1", ",", "5", "0", "0">>
        /\ lines[6] = <<"0", "0", ":", "0", "0", ":", "0", "1", ",", "5", "0", "0",
                        " ", "-", "-", ">", " ",
                        "0", "0", ":", "0", "0", ":", "0", "3", ",", "5", "0", "0">>

C15_SerializerTimes ==
    [][ExportSrt =>
        LET n     == Len(subtitles)
            lines == SrtLines(subtitles, 0, 0)
        IN  /\ Len(lines) = 4 * n
            /\ srt' = Join(lines)
            /\ \A k \in 1..n :
                  LET times == ReadTimes(lines[4 * k - 2])
                      start == C15_StartOf(subtitles, k)
                  IN  /\ IsNumber(lines[4 * k - 3]) /\ DigitsValue(lines[4 * k - 3]) = k
                      /\ times.ok
                      /\ C15_StampOf(times.start, start)
                      /\ C15_StampOf(times.end, start + subtitles[k].durationMs)
                      /\ lines[4 * k - 1] = subtitles[k].text
                      /\ lines[4 * k] = <<>>
            /\ C15_Example]_vars

\* A list of several captions running past a day has been exported.
C15_Witness ==
    /\ Len(subtitles) >= 2
    /\ srt = Join(SrtLines(subtitles, 0, 0))
    /\ subtitles[1].durationMs > 24 * 3600000

\* C16: the serialized document parses back, as blocks of number / line of
\* times / text / empty separator, to the ordered (start, end, text) triples
\* of the caption list it was made from, for every caption list the component
\* holds.
C16_Triples(subs) ==
    [k \in 1..Len(subs) |->
        [ok |-> TRUE,
         start |-> C15_StartOf(subs, k),
         end |-> C15_StartOf(subs, k) + subs[k].durationMs,
         text |-> subs[k].text]]

C16_RoundTrip ==
    [][ExportSrt => ParseSrt(srt') = C16_Triples(subtitles)]_vars

\* C17: a Recognizing fraction f in [0, 1] is shown as round(25 f), within
\* 0..25, and a Rendering fraction f as 70 + round(30 f), within 70..100; both
\* are non-decreasing in f; the percent is 50 once the timeline is built and 65
\* once the motions are planned.  Recognizing fractions 0, 0.4 and 1 give 0, 10
\* and 25; the Rendering fraction 0.5 gives 85.

\* r is x = n/d rounded to the nearest integer, halves up: r - 1/2 <= x < r + 1/2
C17_IsRound(r, n, d) == d * (2 * r - 1) <= 2 * n /\ 2 * n < d * (2 * r + 1)

C17_Grid == {<<n, d>> : n \in 0..10, d \in 1..10} \cap {f \in (0..10) \X (1..10) : f[1] <= f[2]}

C17_Table ==
    /\ \A f \in C17_Grid :
          /\ OcrPercent(f) \in 0..25
          /\ C17_IsRound(OcrPercent(f), 25 * f[1], f[2])
          /\ RenderPercent(f) \in 70..100
          /\ C17_IsRound(RenderPercent(f) - 70, 30 * f[1], f[2])
    /\ \A f, g \in C17_Grid :
          FracLeq(f, g) => /\ OcrPercent(f) <= OcrPercent(g)
                           /\ RenderPercent(f) <= RenderPercent(g)
    /\ <<OcrPercent(<<0, 1>>), OcrPercent(<<2, 5>>), OcrPercent(<<1, 1>>)>> = <<0, 10, 25>>
    /\ RenderPercent(<<1, 2>>) = 85

C17_ProgressAggregator ==
    /\ [][OcrProgress =>
            \E i \in 1..Len(procs') :
                /\ procs'[i].kind = "runAgent" /\ procs'[i].pc = "ocr"
                /\ agentStep' \in 0..25
                /\ C17_IsRound(agentStep', 25 * procs'[i].frac[1], procs'[i].frac[2])]_vars
    /\ [][RenderProgress =>
            \E i \in 1..Len(procs') :
                /\ procs'[i].kind = "renderVideo"
                /\ agentStep' \in 70..100
                /\ C17_IsRound(agentStep' - 70, 30 * procs'[i].frac[1], procs'[i].frac[2])]_vars
    /\ [][OcrResolve => agentStep' = 50]_vars
    /\ [][PlanDone => agentStep' = 65]_vars
    /\ [][C17_Table]_vars

\* Half of the OCR has been reported: 12.5 is shown as 13.
C17_Witness ==
    /\ \E i \in 1..Len(procs) :
          procs[i].kind = "runAgent" /\ procs[i].pc = "ocr" /\ procs[i].frac = <<1, 2>>
    /\ agentStep = 13

\* C18: what a superseded operation produces is never stored.  After the page
\* list was replaced or cleared, every stored OCR result and every caption is
\* of a page of the current page list: nothing of a run started over an
\* earlier page list is written into the state.
C18_PageIds == {images[i].id : i \in 1..Len(images)}

C18_NoSupersededResults ==
    /\ \A k \in 1..Len(ocrResults) : ocrResults[k].imageId \in C18_PageIds
    /\ \A k \in 1..Len(subtitles) : subtitles[k].id.image \in C18_PageIds

\* C19: the timeline builder creates the caption list ordered by page, then by
\* segmentation order (pageIndex does not decrease along the list), and the
\* edits keep it so: a text or duration edit changes only that field of the one
\* unit with the given id; the length of the list, the order, every other unit
\* and the unit's id and pageIndex stay; an edit with an id not in the list
\* changes nothing.
C19_ByPage(subs) ==
    \A j, k \in 1..Len(subs) : j <= k => subs[j].pageIndex <= subs[k].pageIndex

C19_OrderKept ==
    /\ []C19_ByPage(subtitles)
    /\ [][EditText =>
            /\ Len(subtitles') = Len(subtitles)
            /\ \E k \in 1..Len(subtitles) : \A j \in 1..Len(subtitles) :
                  subtitles'[j] = IF j = k
                                  THEN [subtitles[j] EXCEPT !.text = subtitles'[j].text]
                                  ELSE subtitles[j]]_vars
    /\ [][EditDuration =>
            /\ Len(subtitles') = Len(subtitles)
            /\ \E k \in 1..Len(subtitles) : \A j \in 1..Len(subtitles) :
                  subtitles'[j] = IF j = k
                                  THEN [subtitles[j] EXCEPT !.durationMs = subtitles'[j].durationMs]
                                  ELSE subtitles[j]]_vars
    /\ [][CallUpdateUnknown => subtitles' = subtitles]_vars

\* One caption of a list over two pages has been given the typed text.
C19_Witness ==
    /\ edits > 0
    /\ \E j, k \in 1..Len(subtitles) :
          /\ subtitles[j].text \in EditTexts
          /\ subtitles[k].text \notin EditTexts
          /\ subtitles[j].pageIndex # subtitles[k].pageIndex

\* C20: the ids of the captions of the caption list are pairwise distinct, for
\* segment-derived and for fallback units, so an edit addressed by id changes
\* at most one unit.
C20_DistinctIds ==
    /\ [](\A j, k \in 1..Len(subtitles) :
            j # k => IdString(subtitles[j].id) # IdString(subtitles[k].id))
    /\ [][(EditText \/ EditDuration) =>
            Cardinality({k \in 1..Len(subtitles) : subtitles'[k] # subtitles[k]}) <= 1]_vars

\* Two captions of the same page, one of them edited.
C20_Witness ==
    /\ edits > 0
    /\ \E j, k \in 1..Len(subtitles) :
          /\ j # k
          /\ subtitles[j].id.image = subtitles[k].id.image
          /\ subtitles[j].text \in EditTexts

====
